---------------------------- MODULE Spec2Model ----------------------------
(***************************************************************************)
(* Model of src/server.py: the shortest-path server.                       *)
(*                                                                         *)
(*   create_upload_file  (POST /upload_graph_json/)  normalizes a JSON     *)
(*                       payload and installs it as the global             *)
(*                       active_graph;                                     *)
(*   get_shortest_path   (GET /solve_shortest_path/...) runs Dijkstra on   *)
(*                       the active graph.                                 *)
(*                                                                         *)
(* Both handlers are asyncio coroutines run by one event loop: a handler   *)
(* runs without interruption until it reaches an await or returns.         *)
(*                                                                         *)
(* Numbers: weights are Python floats obtained with float().  The model    *)
(* keeps the floats whose value is an integer, on which + and < are exact. *)
(***************************************************************************)
EXTENDS Integers, Sequences, FiniteSets, TLC

VARIABLES
    active_graph,   \* the global of line 16: None or a dict node -> adjacency
    reading,        \* number of create_upload_file calls suspended at line 42
    cur,            \* the coroutine the event loop is running, or "none"
    spos,           \* position of the get_shortest_path call in its body
    sargs,          \* its arguments start_node_id, end_node_id
    seen,           \* the values its reads of active_graph returned, in order
    nodes,          \* its local set nodes (line 122)
    graph,          \* its local dict graph (line 133)
    dj,             \* its locals pq, dist, prev (lines 142-144)
    relaxed,        \* per node, how often the for loop of line 152 ran for it
    resp,           \* the response the running handler has returned
    sent,           \* history: the normal form of the payload of the upload
                    \* that is returning
    everUploaded    \* history: some upload has returned "Upload Success"

vars == <<active_graph, reading, cur, spos, sargs, seen, nodes, graph, dj,
          relaxed, resp, sent, everUploaded>>

-----------------------------------------------------------------------------
(* Bounds.                                                                 *)

\* Most entries of one adjacency (dict or edge list) in an uploaded payload.
MaxEdges == 2
\* Most create_upload_file calls suspended in file.read() at the same time.
MaxUploads == 1
\* Largest edge weight of the graphs the Dijkstra loop is explored on.
MaxW == 1
\* Most edges of the graphs the Dijkstra loop is explored on.
MaxGraphEdges == 3
\* Iterations of the Dijkstra loop after which a run on an uploaded graph is
\* taken not to end (a run that ends on an uploaded graph is shorter; see
\* HangOnlyOnNegativeCycle).
MaxIter == 12

-----------------------------------------------------------------------------
(* JSON values as json.loads returns them.                                 *)

\* A scalar: a number, a string, null, or "absent" for a key a dict lacks.
Num(k) == [t |-> "num", n |-> k, s |-> ""]
Str(x) == [t |-> "str", n |-> 0, s |-> x]
Null == [t |-> "null", n |-> 0, s |-> ""]
Absent == [t |-> "absent", n |-> 0, s |-> ""]

\* The strings float() parses, with their value.
NumericStrings == [s \in {"0", "1", "2"} |->
                     CASE s = "0" -> 0 [] s = "1" -> 1 [] s = "2" -> 2]

\* Decimal rendering of the integers that occur as identifiers.
Decimal == [k \in 0..2 |-> CASE k = 0 -> "0" [] k = 1 -> "1" [] k = 2 -> "2"]

\* float(v): a number converts to itself, a numeric string to its value;
\* any other string raises ValueError and None raises TypeError.
FloatOf(v) ==
    CASE v.t = "num" -> [ok |-> TRUE, n |-> v.n]
      [] v.t = "str" /\ v.s \in DOMAIN NumericStrings ->
            [ok |-> TRUE, n |-> NumericStrings[v.s]]
      [] OTHER -> [ok |-> FALSE, n |-> 0]

\* str(v): a string is itself, a number its decimal form, None is "None".
StrOf(v) ==
    CASE v.t = "str" -> v.s
      [] v.t = "num" -> Decimal[v.n]
      [] OTHER -> "None"

\* The empty dict.
EmptyDict == [k \in {} |-> 0]

\* dict d with d[k] = v set (a later assignment to the same key wins).
DictSet(d, k, v) ==
    [x \in DOMAIN d \cup {k} |-> IF x = k THEN v ELSE d[x]]


-----------------------------------------------------------------------------
(* create_upload_file: normalization of the parsed payload.                *)

\* Case 1 (lines 61-65): neighbors is a dict.  Its keys are JSON object
\* keys, already strings, so str(nbr) is nbr; float(weight) may raise.
AdjOfDict(d) ==
    IF \E k \in DOMAIN d : ~FloatOf(d[k]).ok
    THEN [ok |-> FALSE, adj |-> EmptyDict]
    ELSE [ok |-> TRUE, adj |-> [k \in DOMAIN d |-> FloatOf(d[k]).n]]

\* w = edge.get("distance", edge.get("weight")) (line 75): the value under
\* "distance" when the key is there, even if it is null; otherwise the value
\* under "weight", or None.
EdgeWeight(e) ==
    IF e.distance.t # "absent" THEN e.distance
    ELSE IF e.weight.t # "absent" THEN e.weight
    ELSE Null

\* Entries the loop of lines 70-78 passes over with continue.
SkipsEdge(e) ==
    \/ ~e.isdict
    \/ e.to.t = "absent"
    \/ EdgeWeight(e).t = "null"

\* Case 2 (lines 68-79): neighbors is a list of edges, read in order into adj.
RECURSIVE AdjOfList(_, _)
AdjOfList(l, adj) ==
    IF l = <<>> THEN [ok |-> TRUE, adj |-> adj]
    ELSE LET e == Head(l)
         IN  IF SkipsEdge(e) THEN AdjOfList(Tail(l), adj)
             ELSE IF ~FloatOf(EdgeWeight(e)).ok
                  THEN [ok |-> FALSE, adj |-> EmptyDict]
                  ELSE AdjOfList(Tail(l),
                           DictSet(adj, StrOf(e.to), FloatOf(EdgeWeight(e)).n))

\* The adjacency one top-level entry yields (lines 61-83).
AdjOfNode(v) ==
    CASE v.kind = "dict" -> AdjOfDict(v.d)
      [] v.kind = "list" -> AdjOfList(v.l, EmptyDict)
      [] OTHER -> [ok |-> TRUE, adj |-> EmptyDict]

\* Lines 54-85: normalized_graph, or the exception caught at line 84.  The
\* keys of data are JSON object keys, so str(node_id) is node_id.
Normalize(items) ==
    LET adjs == [k \in DOMAIN items |-> AdjOfNode(items[k])]
    IN  IF \E k \in DOMAIN items : ~adjs[k].ok
        THEN [ok |-> FALSE, g |-> EmptyDict]
        ELSE [ok |-> TRUE, g |-> [k \in DOMAIN items |-> adjs[k].adj]]

\* RejectsEmpty with a fault: the check of lines 87-88 left out.
RejectsNothing(g) == FALSE

\* Lines 87-88: "if not normalized_graph" rejects the graph without nodes.
RejectsEmpty(g) == DOMAIN g = {}

\* filename.lower() (line 37), on the characters that occur.
LowerChar(c) ==
    CASE c = "J" -> "j" [] c = "S" -> "s" [] c = "O" -> "o" [] c = "N" -> "n"
      [] c = "G" -> "g" [] OTHER -> c
Lower(name) == [i \in 1..Len(name) |-> LowerChar(name[i])]

\* str.endswith
EndsWith(name, suffix) ==
    /\ Len(name) >= Len(suffix)
    /\ SubSeq(name, Len(name) - Len(suffix) + 1, Len(name)) = suffix

\* Line 37: the extension check.
IsJsonName(name) == EndsWith(Lower(name), <<".", "j", "s", "o", "n">>)

\* Responses.  path and dist are meaningful for kind "Path" only.
Response(kind) == [kind |-> kind, path |-> <<>>, dist |-> 0, guard |-> FALSE]
NoResponse == Response("none")

\* The value of the global active_graph.
NoneGraph == [isNone |-> TRUE, g |-> EmptyDict]
SomeGraph(g) == [isNone |-> FALSE, g |-> g]

\* UploadOutcome with a fault: line 91 placed before the check of lines 87-88.
UploadOutcomeInstallFirst(raw, ag) ==
    IF raw.kind # "dict" THEN [resp |-> Response("InvalidFormat"), ag |-> ag]
    ELSE LET n == Normalize(raw.items)
         IN  IF ~n.ok THEN [resp |-> Response("InvalidFormat"), ag |-> ag]
             ELSE IF RejectsEmpty(n.g)
                  THEN [resp |-> Response("InvalidFormat"), ag |-> SomeGraph(n.g)]
                  ELSE [resp |-> Response("UploadSuccess"), ag |-> SomeGraph(n.g)]

\* Lines 41-93 after file.read() has returned raw: the response and the
\* value of active_graph on return.
UploadOutcome(raw, ag) ==
    IF raw.kind = "garbage" THEN [resp |-> Response("InvalidFormat"), ag |-> ag]
    ELSE IF raw.kind # "dict" THEN [resp |-> Response("InvalidFormat"), ag |-> ag]
    ELSE LET n == Normalize(raw.items)
         IN  IF ~n.ok THEN [resp |-> Response("InvalidFormat"), ag |-> ag]
             ELSE IF RejectsEmpty(n.g)
                  THEN [resp |-> Response("InvalidFormat"), ag |-> ag]
                  ELSE [resp |-> Response("UploadSuccess"), ag |-> SomeGraph(n.g)]

-----------------------------------------------------------------------------
(* The payloads uploaded.                                                  *)

TopKeys == {"A", "B"}
NbrIds == {"A", "B", "C"}

DictNode(d) == [kind |-> "dict", d |-> d, l |-> <<>>]
ListNode(l) == [kind |-> "list", d |-> EmptyDict, l |-> l]
OtherNode == [kind |-> "other", d |-> EmptyDict, l |-> <<>>]

\* Weights of the direct mappings: a positive and a negative number.
DictWeights == {Num(1), Num(0 - 1)}
\* The direct mappings given for node k: to at most MaxEdges other nodes.
DictValsFor(k) ==
    UNION {[S -> DictWeights] :
             S \in {T \in SUBSET (NbrIds \ {k}) : Cardinality(T) <= MaxEdges}}

\* Entries of the edge lists: a non-dict, and dicts with or without each
\* of "to", "distance", "weight".
Edge(to, distance, weight) ==
    [isdict |-> TRUE, to |-> to, distance |-> distance, weight |-> weight]
NonDictEntry ==
    [isdict |-> FALSE, to |-> Absent, distance |-> Absent, weight |-> Absent]
Entries ==
    {NonDictEntry,
     Edge(Absent, Str("2"), Absent),       \* no "to"
     Edge(Str("B"), Absent, Absent),       \* neither "distance" nor "weight"
     Edge(Str("B"), Str("2"), Absent),     \* "distance", a numeric string
     Edge(Str("B"), Absent, Num(1)),       \* "weight"
     Edge(Str("B"), Num(0), Str("x")),     \* both: "distance" is taken
     Edge(Str("B"), Null, Num(1)),         \* "distance": null hides "weight"
     Edge(Str("B"), Absent, Str("x")),     \* a weight float() rejects
     Edge(Num(1), Absent, Num(1)),         \* "to" is the number 1
     Edge(Str("C"), Absent, Num(0 - 1)),   \* a negative weight
     Edge(Str("A"), Absent, Num(0))}       \* an edge from "A" to itself
ListVals == UNION {[1..k -> Entries] : k \in 0..MaxEdges}

DictPayload(items) == [kind |-> "dict", items |-> items]

\* Payloads that give direct mappings for the nodes of K.
DictItems(K) ==
    {x \in [K -> {DictNode(d) : d \in UNION {DictValsFor(k) : k \in K}}] :
       \A k \in K : x[k].d \in DictValsFor(k)}
DictPayloads ==
    {DictPayload(f) : f \in UNION {DictItems(K) : K \in SUBSET TopKeys}}

ListPayloads ==
    {DictPayload([k \in {"A"} |-> ListNode(l)]) : l \in ListVals}

\* {"A": 7, "B": []}: a value that is neither dict nor list, an empty list
OtherPayload ==
    DictPayload([k \in {"A", "B"} |->
                   IF k = "A" THEN OtherNode ELSE ListNode(<<>>)])

\* {"A": {"B": "x"}} and {"A": {"B": null}}: weights float() rejects
BadWeightPayloads ==
    {DictPayload([k \in {"A"} |-> DictNode([v \in {"B"} |-> w])]) :
       w \in {Str("x"), Null}}

\* {"A": {"B": 1, "C": 4}, "B": {"C": 2}, "C": {}}
ScenarioA ==
    DictPayload([k \in {"A", "B", "C"} |->
        CASE k = "A" -> DictNode([v \in {"B", "C"} |->
                                    IF v = "B" THEN Num(1) ELSE Num(4)])
          [] k = "B" -> DictNode([v \in {"C"} |-> Num(2)])
          [] OTHER -> DictNode(EmptyDict)])

\* {"A": [{"to": "B", "distance": 5}]}
ScenarioE ==
    DictPayload([k \in {"A"} |->
        ListNode(<<[isdict |-> TRUE, to |-> Str("B"), distance |-> Num(5),
                    weight |-> Absent]>>)])

\* Bytes json.loads rejects, and a JSON value that is no object.
Garbage == [kind |-> "garbage", items |-> EmptyDict]
NonDict == [kind |-> "nondict", items |-> EmptyDict]

Payloads ==
    DictPayloads \cup ListPayloads \cup BadWeightPayloads \cup
    {OtherPayload, ScenarioA, ScenarioE, Garbage, NonDict}

Filenames ==
    {<<"g", ".", "j", "s", "o", "n">>, <<"G", ".", "J", "S", "O", "N">>,
     <<"g", ".", "t", "x", "t">>, <<"j", "s", "o", "n">>, <<>>}

-----------------------------------------------------------------------------
(* get_shortest_path: the guards and the rebuilt adjacency.                *)

\* "not active_graph" (line 116): None and the empty dict are both falsy.
Falsy(ag) == ag.isNone \/ DOMAIN ag.g = {}

\* NodesOf with a fault: the neighbors of lines 123-125 not collected.
KeysOnly(g) == DOMAIN g

\* Lines 122-125: the keys together with every neighbor.  The values of the
\* active graph are dicts with string keys, so str(v) is v.
NodesOf(g) == DOMAIN g \cup UNION {DOMAIN g[u] : u \in DOMAIN g}

\* Line 127.
InvalidIds(start, end, ns) == start \notin ns \/ end \notin ns

\* Rebuild with a fault: the active graph used as it is, without line 133.
RebuildKeysOnly(g, ns) == g

\* Lines 133-138: an empty adjacency for every node, then the edges of the
\* active graph (float(w) of a float is w).  graph[u] raises KeyError when
\* u is a key with edges that the set of line 122 did not hold.
RebuildRaises(g, ns) == \E u \in DOMAIN g : u \notin ns /\ DOMAIN g[u] # {}
Rebuild(g, ns) == [u \in ns |-> IF u \in DOMAIN g THEN g[u] ELSE EmptyDict]

-----------------------------------------------------------------------------
(* get_shortest_path: Dijkstra (lines 142-157) and the path (159-182).     *)

\* Python orders the identifiers that occur by code point.
IdOrder == <<"1", "A", "B", "C", "D">>
Rank(x) == CHOOSE i \in 1..Len(IdOrder) : IdOrder[i] = x

\* TupleLess with a fault: the entries pushed as (u, cur_d).
TupleLessByNode(a, b) ==
    Rank(a[2]) < Rank(b[2]) \/ (a[2] = b[2] /\ a[1] < b[1])

\* The order of the heap entries (cur_d, u): tuples compare left to right.
TupleLess(a, b) == a[1] < b[1] \/ (a[1] = b[1] /\ Rank(a[2]) < Rank(b[2]))

\* heapq.heappush: pq is kept as the entries in the order heappop returns
\* them; e goes after the entries that are not larger.
HeapPush(pq, e) ==
    LET k == Cardinality({i \in 1..Len(pq) : ~TupleLess(e, pq[i])})
    IN  SubSeq(pq, 1, k) \o <<e>> \o SubSeq(pq, k + 1, Len(pq))

RECURSIVE PushAll(_, _)
PushAll(pq, es) ==
    IF es = {} THEN pq
    ELSE LET e == CHOOSE x \in es : \A y \in es : x = y \/ TupleLess(x, y)
         IN  PushAll(HeapPush(pq, e), es \ {e})

\* Lines 142-144.
DjIdle ==
    [pq |-> <<>>, dist |-> EmptyDict, prev |-> EmptyDict, brk |-> FALSE]
DjInit(start) ==
    [pq |-> <<<<0, start>>>>, dist |-> [v \in {start} |-> 0],
     prev |-> EmptyDict, brk |-> FALSE]

\* Line 148: the popped entry is stale.
Stale(cur_d, d) == cur_d > d

\* Improves with a fault: "<=" for "<" at line 154.
ImprovesOrEqual(new_d, dist, v) == v \notin DOMAIN dist \/ new_d <= dist[v]

\* Line 154: v gets the distance new_d.
Improves(new_d, dist, v) == v \notin DOMAIN dist \/ new_d < dist[v]

\* Relax with a fault: prev[v] recorded only when a recorded distance is
\* lowered, not when v gets its first.
RelaxPrevOnUpdateOnly(g, u, cur_d, st) ==
    LET better == {v \in DOMAIN g[u] :
                     v \notin DOMAIN st.dist \/ cur_d + g[u][v] < st.dist[v]}
        lowered == better \cap DOMAIN st.dist
    IN  [st EXCEPT
           !.dist = [v \in DOMAIN st.dist \cup better |->
                       IF v \in better THEN cur_d + g[u][v] ELSE st.dist[v]],
           !.prev = [v \in DOMAIN st.prev \cup lowered |->
                       IF v \in lowered THEN u ELSE st.prev[v]],
           !.pq = PushAll(st.pq, {<<cur_d + g[u][v], v>> : v \in better})]

\* Lines 152-157 for the popped u: the neighbors are distinct keys of
\* graph[u] and an iteration of the for loop writes dist[v] alone, so every
\* test of line 154 reads the dist the for loop started with.
Relax(g, u, cur_d, st) ==
    LET better == {v \in DOMAIN g[u] : Improves(cur_d + g[u][v], st.dist, v)}
    IN  [st EXCEPT
           !.dist = [v \in DOMAIN st.dist \cup better |->
                       IF v \in better THEN cur_d + g[u][v] ELSE st.dist[v]],
           !.prev = [v \in DOMAIN st.prev \cup better |->
                       IF v \in better THEN u ELSE st.prev[v]],
           !.pq = PushAll(st.pq, {<<cur_d + g[u][v], v>> : v \in better})]

\* The way one iteration of "while pq" (lines 146-157) goes.
IterKind(end, st) ==
    LET e == Head(st.pq)
    IN  IF Stale(e[1], st.dist[e[2]]) THEN "stale"
        ELSE IF e[2] = end THEN "end"
        ELSE "relax"

\* One iteration of "while pq".
DjStep(g, end, st) ==
    LET e == Head(st.pq)
        popped == [st EXCEPT !.pq = Tail(st.pq)]
        kind == IterKind(end, st)
    IN  CASE kind = "stale" -> popped
          [] kind = "end" -> [popped EXCEPT !.brk = TRUE]
          [] OTHER -> Relax(g, e[2], e[1], popped)

\* The loop has ended: pq is empty or break was taken.
LoopDone(st) == st.pq = <<>> \/ st.brk

\* Lines 167-177: follow prev from end; a missing parent is the safety
\* guard.  The walk is deterministic, so a path longer than the nodes prev
\* knows plus one repeats a node and the while never ends.
RECURSIVE Walk(_, _, _)
Walk(path, start, prev) ==
    LET last == path[Len(path)]
    IN  IF last = start THEN [kind |-> "ok", path |-> path]
        ELSE IF last \notin DOMAIN prev THEN [kind |-> "guard", path |-> path]
        ELSE IF Len(path) > Cardinality(DOMAIN prev) + 1
             THEN [kind |-> "hang", path |-> path]
             ELSE Walk(Append(path, prev[last]), start, prev)

\* Reverse with a fault: path.reverse() left out.
NotReversed(p) == p

\* path.reverse()
Reverse(p) == [i \in 1..Len(p) |-> p[Len(p) + 1 - i]]

\* Lines 159-182: the response once the loop has ended.
PathResponse(start, end, st) ==
    IF end \notin DOMAIN st.dist THEN Response("NoPath")
    ELSE LET w == Walk(<<end>>, start, st.prev)
         IN  CASE w.kind = "ok" ->
                    [kind |-> "Path", path |-> Reverse(w.path),
                     dist |-> st.dist[end], guard |-> FALSE]
               [] w.kind = "guard" -> [Response("NoPath") EXCEPT !.guard = TRUE]
               [] OTHER -> Response("Hang")

\* The whole loop of lines 146-157, given up after fuel iterations.
RECURSIVE DjRun(_, _, _, _)
DjRun(g, end, st, fuel) ==
    IF LoopDone(st) THEN [ended |-> TRUE, st |-> st]
    ELSE IF fuel = 0 THEN [ended |-> FALSE, st |-> st]
    ELSE DjRun(g, end, DjStep(g, end, st), fuel - 1)

-----------------------------------------------------------------------------
(* The event loop.                                                         *)

\* Suspends with a fault: awaits inside get_shortest_path too, before lines
\* 122 and 133.
SuspendsInSolve(pos) == pos \in {"read", "collect", "rebuild"}

\* The positions at which a coroutine hands the event loop back: the one
\* await of the module, "raw = await file.read()" (line 42).
Suspends(pos) == pos = "read"

\* The coroutine the loop runs once task has moved to pos.
Holder(task, pos) == IF Suspends(pos) THEN "none" ELSE task

\* task, standing at pos, can take its next step.
CanStep(task, pos) == cur = task \/ (cur = "none" /\ Suspends(pos))

\* No handler has returned a response that is still to be sent.
NothingReturned == resp.kind = "none"

QueryIds == {"A", "B", "C"}
NoArgs == [start |-> "", end |-> ""]
NoSent == [ok |-> FALSE, g |-> EmptyDict]

SolveLocalsIdle ==
    /\ sargs' = NoArgs
    /\ seen' = <<>>
    /\ nodes' = {}
    /\ graph' = EmptyDict
    /\ dj' = DjIdle
    /\ relaxed' = EmptyDict

Init ==
    /\ active_graph = NoneGraph
    /\ reading = 0
    /\ cur = "none"
    /\ spos = "idle"
    /\ sargs = NoArgs
    /\ seen = <<>>
    /\ nodes = {}
    /\ graph = EmptyDict
    /\ dj = DjIdle
    /\ relaxed = EmptyDict
    /\ resp = NoResponse
    /\ sent = NoSent
    /\ everUploaded = FALSE

\* create_upload_file, lines 32-42: the extension check, then the await.
UploadBegin(name) ==
    /\ cur = "none"
    /\ NothingReturned
    /\ IF ~IsJsonName(name)
       THEN /\ resp' = Response("InvalidFileType")
            /\ cur' = "upload"
            /\ reading' = reading
       ELSE /\ reading < MaxUploads
            /\ reading' = reading + 1
            /\ cur' = Holder("upload", "read")
            /\ resp' = resp
    /\ UNCHANGED <<active_graph, spos, sargs, seen, nodes, graph, dj, relaxed,
                   sent, everUploaded>>

\* create_upload_file, lines 42-93: file.read() returns raw; parse,
\* normalize, install, return.
UploadResume(raw) ==
    /\ reading > 0
    /\ CanStep("upload", "read")
    /\ NothingReturned
    /\ LET out == UploadOutcome(raw, active_graph)
       IN  /\ active_graph' = out.ag
           /\ resp' = out.resp
           /\ everUploaded' = (everUploaded \/ out.resp.kind = "UploadSuccess")
    /\ sent' = IF raw.kind = "dict" THEN Normalize(raw.items) ELSE NoSent
    /\ reading' = reading - 1
    /\ cur' = "upload"
    /\ UNCHANGED <<spos, sargs, seen, nodes, graph, dj, relaxed>>

\* get_shortest_path, lines 113-119.
SolveBegin(start, end) ==
    /\ cur = "none"
    /\ spos = "idle"
    /\ NothingReturned
    /\ sargs' = [start |-> start, end |-> end]
    /\ seen' = <<active_graph>>
    /\ IF Falsy(active_graph)
       THEN /\ resp' = Response("NoActiveGraph")
            /\ spos' = "returned"
            /\ cur' = "solve"
       ELSE /\ resp' = resp
            /\ spos' = "collect"
            /\ cur' = Holder("solve", "collect")
    /\ UNCHANGED <<active_graph, reading, nodes, graph, dj, relaxed, sent,
                   everUploaded>>

\* get_shortest_path, lines 121-130.
SolveCollect ==
    /\ spos = "collect"
    /\ CanStep("solve", "collect")
    /\ seen' = Append(seen, active_graph)
    /\ nodes' = NodesOf(active_graph.g)
    /\ IF InvalidIds(sargs.start, sargs.end, NodesOf(active_graph.g))
       THEN /\ resp' = Response("InvalidNode")
            /\ spos' = "returned"
            /\ cur' = "solve"
       ELSE /\ resp' = resp
            /\ spos' = "rebuild"
            /\ cur' = Holder("solve", "rebuild")
    /\ UNCHANGED <<active_graph, reading, sargs, graph, dj, relaxed, sent,
                   everUploaded>>

\* get_shortest_path, lines 132-144.
SolveRebuild ==
    /\ spos = "rebuild"
    /\ CanStep("solve", "rebuild")
    /\ seen' = Append(seen, active_graph)
    /\ IF RebuildRaises(active_graph.g, nodes)
       THEN /\ resp' = Response("Crash")
            /\ spos' = "returned"
            /\ cur' = "solve"
            /\ UNCHANGED <<graph, dj>>
       ELSE /\ graph' = Rebuild(active_graph.g, nodes)
            /\ dj' = DjInit(sargs.start)
            /\ resp' = resp
            /\ spos' = "dijkstra"
            /\ cur' = Holder("solve", "dijkstra")
    /\ UNCHANGED <<active_graph, reading, sargs, nodes, relaxed, sent,
                   everUploaded>>

\* get_shortest_path, lines 146-182 in one piece: the loop, then the
\* response; a loop or a walk that does not end leaves the handler, and with
\* it the event loop, stuck.
SolveRun ==
    /\ spos = "dijkstra"
    /\ CanStep("solve", "dijkstra")
    /\ LET run == DjRun(graph, sargs.end, dj, MaxIter)
           r == PathResponse(sargs.start, sargs.end, run.st)
       IN  /\ dj' = run.st
           /\ IF run.ended /\ r.kind # "Hang"
              THEN resp' = r /\ spos' = "returned"
              ELSE resp' = resp /\ spos' = "hung"
    /\ cur' = "solve"
    /\ UNCHANGED <<active_graph, reading, sargs, seen, nodes, graph, relaxed,
                   sent, everUploaded>>

\* The transport sends the returned response; the event loop is free again.
Respond ==
    /\ ~NothingReturned
    /\ resp' = NoResponse
    /\ cur' = "none"
    /\ sent' = NoSent
    /\ IF cur = "solve"
       THEN spos' = "idle" /\ SolveLocalsIdle
       ELSE UNCHANGED <<spos, sargs, seen, nodes, graph, dj, relaxed>>
    /\ UNCHANGED <<active_graph, reading, everUploaded>>

Next ==
    \/ \E name \in Filenames : UploadBegin(name)
    \/ \E raw \in Payloads : UploadResume(raw)
    \/ \E start \in QueryIds, end \in QueryIds : SolveBegin(start, end)
    \/ SolveCollect
    \/ SolveRebuild
    \/ SolveRun
    \/ Respond

Spec == Init /\ [][Next]_vars

-----------------------------------------------------------------------------
(* Properties of the server (specification Spec).                          *)

\* get_shortest_path has built its local graph and not yet been answered.
HasLocalGraph ==
    \/ spos \in {"dijkstra", "hung"}
    \/ spos = "returned" /\ resp.kind \in {"Path", "NoPath"}

\* Every neighbor of g is a key of g.
TargetsAreKeys(g) == \A u \in DOMAIN g : DOMAIN g[u] \subseteq DOMAIN g

\* What the upload of {"A": [{"to": "B", "distance": 5}]} stores, and the
\* graph Dijkstra is run on then.
ScenarioEStored == [k \in {"A"} |-> [v \in {"B"} |-> 5]]
ScenarioESolved ==
    [k \in {"A", "B"} |-> IF k = "A" THEN [v \in {"B"} |-> 5] ELSE EmptyDict]

\* C4 as stated: whenever the active graph is present, every node that
\* occurs as a neighbor in it is one of its keys.
C4_ActiveGraphHasNeighborKeys ==
    ~active_graph.isNone => TargetsAreKeys(active_graph.g)

\* C4 as amended: the active graph holds the declared nodes only (the upload
\* of {"A": [{"to": "B", "distance": 5}]} stores {"A": {"B": 5.0}}); it is
\* the graph get_shortest_path rebuilds from it before Dijkstra that has
\* every neighbor as a key, with the adjacency of the active graph for the
\* declared nodes and an empty one for the others.
C4_RebuiltGraphHasNeighborKeys ==
    /\ Normalize(ScenarioE.items) = [ok |-> TRUE, g |-> ScenarioEStored]
    /\ HasLocalGraph =>
         /\ TargetsAreKeys(graph)
         /\ DOMAIN active_graph.g \subseteq DOMAIN graph
         /\ \A u \in DOMAIN graph :
              graph[u] = IF u \in DOMAIN active_graph.g
                         THEN active_graph.g[u] ELSE EmptyDict

\* C4, witness: Dijkstra about to run on {"A": {"B": 5.0}, "B": {}} while
\* the active graph is {"A": {"B": 5.0}}.
C4_Witness ==
    /\ spos = "dijkstra"
    /\ active_graph.g = ScenarioEStored
    /\ graph = ScenarioESolved

\* C5 as stated: every edge weight of the active graph is non-negative.
C5_ActiveWeightsNonNegative ==
    \A u \in DOMAIN active_graph.g :
        \A v \in DOMAIN active_graph.g[u] : active_graph.g[u][v] >= 0

\* C6: the step in which an upload returns an error leaves active_graph as
\* it is; the step in which an upload returns success sets it to the normal
\* form of the payload of that upload, whatever it held; an upload returns
\* "Invalid JSON graph format" exactly for a payload that has no normal form
\* or an empty one; and no other step changes active_graph.
C6_OnlySuccessfulUploadReplaces ==
    [][/\ (NothingReturned /\ resp'.kind \in {"InvalidFileType", "InvalidFormat"})
            => active_graph' = active_graph
       /\ (NothingReturned /\ resp'.kind = "InvalidFormat")
            => (~sent'.ok \/ DOMAIN sent'.g = {})
       /\ (NothingReturned /\ resp'.kind = "UploadSuccess")
            => /\ sent'.ok
               /\ DOMAIN sent'.g # {}
               /\ active_graph' = SomeGraph(sent'.g)
       /\ ~(NothingReturned /\ resp'.kind = "UploadSuccess")
            => active_graph' = active_graph]_vars

\* C6, witness: an upload whose payload has no node has returned the format
\* error while a graph is active.
C6_Witness ==
    /\ resp.kind = "InvalidFormat"
    /\ sent.ok
    /\ DOMAIN sent.g = {}
    /\ ~active_graph.isNone

\* C7: all the reads of active_graph a get_shortest_path call has made
\* returned one and the same value, its node set and the graph it runs
\* Dijkstra on are those of that value, and that value is still the active
\* graph, also while uploads are suspended in file.read().
C7_SolveReadsOneGraph ==
    spos # "idle" =>
      /\ \A i \in 1..Len(seen) : seen[i] = seen[1] /\ seen[i] = active_graph
      /\ spos \in {"rebuild", "dijkstra", "hung"} => nodes = NodesOf(seen[1].g)
      /\ HasLocalGraph => graph = Rebuild(seen[1].g, NodesOf(seen[1].g))

\* C7, witness: the call has read the active graph three times and is about
\* to run Dijkstra while an upload is suspended in file.read().
C7_Witness ==
    /\ spos = "dijkstra"
    /\ Len(seen) = 3
    /\ reading > 0

\* C8: a get_shortest_path call returns "No active graph" exactly when no
\* upload has succeeded, whatever its arguments; once an upload has
\* succeeded the active graph is never absent or empty again.
C8_NoGraphIffNoUpload ==
    /\ spos = "returned" => (resp.kind = "NoActiveGraph" <=> ~everUploaded)
    /\ everUploaded => ~Falsy(active_graph)
    /\ ~everUploaded => active_graph = NoneGraph

\* C8, witness: the error returned for two distinct identifiers while an
\* upload is still being read.
C8_Witness ==
    /\ spos = "returned"
    /\ resp.kind = "NoActiveGraph"
    /\ sargs.start # sargs.end
    /\ reading > 0

\* The keys of g together with every neighbor.
KeysAndTargets(g) ==
    {x \in QueryIds \cup DOMAIN g : x \in DOMAIN g \/ \E u \in DOMAIN g : x \in DOMAIN g[u]}

\* C9: with an active graph, the call returns "Invalid start or end node ID"
\* exactly when start or end is neither a key nor a neighbor of the active
\* graph, and has not run Dijkstra then; with both identifiers known it goes
\* on to Dijkstra.
C9_InvalidIffUnknownNode ==
    /\ (spos = "returned" /\ resp.kind # "NoActiveGraph") =>
         /\ resp.kind = "InvalidNode" <=>
              (\/ sargs.start \notin KeysAndTargets(active_graph.g)
               \/ sargs.end \notin KeysAndTargets(active_graph.g))
         /\ resp.kind = "InvalidNode" => (dj = DjIdle /\ graph = EmptyDict)
    /\ spos \in {"rebuild", "dijkstra", "hung"} =>
         /\ sargs.start \in KeysAndTargets(active_graph.g)
         /\ sargs.end \in KeysAndTargets(active_graph.g)

\* C9, witness: a path returned to a node that is a neighbor but no key.
C9_Witness ==
    /\ spos = "returned"
    /\ resp.kind = "Path"
    /\ sargs.end \notin DOMAIN active_graph.g
    /\ sargs.start # sargs.end

\* The cap MaxIter cuts no run that would end: a call hangs only on a graph
\* with a cycle of negative weight (the uploaded graphs with a negative
\* weight have at most two nodes with edges).
HangOnlyOnNegativeCycle ==
    spos = "hung" =>
      \E u \in DOMAIN graph : \E v \in DOMAIN graph[u] :
         /\ u \in DOMAIN graph[v]
         /\ graph[u][v] + graph[v][u] < 0

-----------------------------------------------------------------------------
(* The Dijkstra loop of get_shortest_path, one iteration at a time, on     *)
(* every graph with non-negative weights over DNodes that has at most      *)
(* MaxGraphEdges edges.                                                    *)

DNodes == {"A", "B", "C", "D"}
DEdges == {e \in DNodes \X DNodes : e[1] # e[2]}

\* The dict line 133-138 builds for the edges E with the weights w.
GraphOf(E, w) ==
    [u \in DNodes |-> [v \in {x \in DNodes : <<u, x>> \in E} |-> w[<<u, v>>]]]

\* get_shortest_path at line 146, for a graph and two of its nodes.
InitD ==
    /\ \E E \in {F \in SUBSET DEdges : Cardinality(F) <= MaxGraphEdges} :
          \E w \in [E -> 0..MaxW] : graph = GraphOf(E, w)
    /\ active_graph = SomeGraph(graph)
    /\ sargs \in [start : DNodes, end : DNodes]
    /\ nodes = DNodes
    /\ seen = <<active_graph, active_graph, active_graph>>
    /\ dj = DjInit(sargs.start)
    /\ relaxed = [u \in DNodes |-> 0]
    /\ spos = "dijkstra"
    /\ cur = "solve"
    /\ reading = 0
    /\ resp = NoResponse
    /\ sent = NoSent
    /\ everUploaded = TRUE

\* The loop is at line 147 and the iteration it starts is of the kind given.
AtIteration(kind) ==
    /\ spos = "dijkstra"
    /\ cur = "solve"
    /\ ~LoopDone(dj)
    /\ IterKind(sargs.end, dj) = kind

\* One iteration of "while pq".
Iterate ==
    /\ dj' = DjStep(graph, sargs.end, dj)
    /\ UNCHANGED <<active_graph, reading, cur, spos, sargs, seen, nodes, graph,
                   resp, sent, everUploaded>>

\* Lines 147-149: a stale entry is popped and dropped.
PopStale ==
    /\ AtIteration("stale")
    /\ Iterate
    /\ relaxed' = relaxed

\* Lines 147-151: end is popped, break.
PopEnd ==
    /\ AtIteration("end")
    /\ Iterate
    /\ relaxed' = relaxed

\* Lines 147-157: a node is popped and its edges are relaxed.
PopRelax ==
    /\ AtIteration("relax")
    /\ Iterate
    /\ relaxed' = [relaxed EXCEPT ![Head(dj.pq)[2]] = @ + 1]

\* Lines 159-182: the loop has ended; the response.
Finish ==
    /\ spos = "dijkstra"
    /\ cur = "solve"
    /\ LoopDone(dj)
    /\ LET r == PathResponse(sargs.start, sargs.end, dj)
       IN  IF r.kind # "Hang"
           THEN resp' = r /\ spos' = "returned"
           ELSE resp' = resp /\ spos' = "hung"
    /\ UNCHANGED <<active_graph, reading, cur, sargs, seen, nodes, graph, dj,
                   relaxed, sent, everUploaded>>

NextD == PopStale \/ PopEnd \/ PopRelax \/ Finish

SpecD == InitD /\ [][NextD]_vars

\* The handler keeps running until it returns: the event loop runs nothing
\* else while it holds the loop.
FairSpecD == SpecD /\ WF_vars(NextD)

-----------------------------------------------------------------------------
(* Properties of the Dijkstra loop (specifications SpecD, FairSpecD).      *)

Min(S) == CHOOSE x \in S : \A y \in S : x <= y

\* The least weight of a walk of at most k edges from s to each node such a
\* walk reaches.
RECURSIVE Within(_, _, _)
Within(g, s, k) ==
    IF k = 0 THEN [v \in {s} |-> 0]
    ELSE LET d == Within(g, s, k - 1)
             cand == [v \in DOMAIN g |->
                        (IF v \in DOMAIN d THEN {d[v]} ELSE {}) \cup
                        {d[u] + g[u][v] : u \in {x \in DOMAIN d : v \in DOMAIN g[x]}}]
         IN  [v \in {x \in DOMAIN g : cand[x] # {}} |-> Min(cand[v])]

\* The least weight of a path from s to each node reachable from s: with
\* weights >= 0 a lightest walk repeats no node, so it has fewer edges than
\* the graph has nodes.
ShortestDist(g, s) == Within(g, s, Cardinality(DOMAIN g) - 1)

\* The nodes reachable from the nodes of R.
RECURSIVE Closure(_, _)
Closure(g, R) ==
    LET more == R \cup UNION {DOMAIN g[u] : u \in R}
    IN  IF more = R THEN R ELSE Closure(g, more)
Reachable(g, s, e) == e \in Closure(g, {s})

\* The sum of the weights of the edges of the path p.
RECURSIVE PathWeight(_, _)
PathWeight(g, p) ==
    IF Len(p) <= 1 THEN 0
    ELSE g[p[1]][p[2]] + PathWeight(g, Tail(p))

\* What get_shortest_path answers for A and C on the graph of
\* {"A": {"B": 1, "C": 4}, "B": {"C": 2}, "C": {}}.
ScenarioAResponse ==
    LET g == Normalize(ScenarioA.items).g
        run == DjRun(Rebuild(g, NodesOf(g)), "C", DjInit("A"), MaxIter)
    IN  PathResponse("A", "C", run.st)

C2_PathMatchesDistance ==
    (spos = "returned" /\ Reachable(graph, sargs.start, sargs.end)) =>
       /\ resp.kind = "Path"
       /\ Len(resp.path) >= 1
       /\ resp.path[1] = sargs.start
       /\ resp.path[Len(resp.path)] = sargs.end
       /\ \A i \in 1..(Len(resp.path) - 1) :
             resp.path[i + 1] \in DOMAIN graph[resp.path[i]]
       /\ PathWeight(graph, resp.path) = resp.dist
       /\ sargs.start = sargs.end => (resp.path = <<sargs.start>> /\ resp.dist = 0)

\* C2, witness: a path over all four nodes with a positive weight.
C2_Witness ==
    /\ spos = "returned"
    /\ resp.kind = "Path"
    /\ Len(resp.path) = Cardinality(DNodes)
    /\ resp.dist > 0

\* C3: the call returns the none/none response exactly when end is not
\* reachable from start; the guard of line 170 is never taken, because prev
\* leads from every node with a recorded distance back to start.
C3_NoneIffUnreachable ==
    /\ spos # "hung"
    /\ spos \in {"dijkstra", "returned"} =>
         \A v \in DOMAIN dj.dist : Walk(<<v>>, sargs.start, dj.prev).kind = "ok"
    /\ spos = "returned" =>
         /\ resp.kind \in {"Path", "NoPath"}
         /\ resp.kind = "NoPath" <=> ~Reachable(graph, sargs.start, sargs.end)
         /\ ~resp.guard

\* C3, witness: none/none returned after the loop has emptied the heap and
\* recorded a distance for three nodes.
C3_Witness ==
    /\ spos = "returned"
    /\ resp.kind = "NoPath"
    /\ dj.pq = <<>>
    /\ Cardinality(DOMAIN dj.dist) = 3

\* C10: on a graph with weights >= 0, zero-weight edges and cycles included,
\* the edges of a node are relaxed at most once, and the loop ends and the
\* call returns.
C10_LoopTerminates ==
    /\ [](\A u \in DOMAIN relaxed : relaxed[u] <= 1)
    /\ <>(spos = "returned")

\* C10, witness: the call has returned on a graph with a cycle of two
\* zero-weight edges, both nodes of which were relaxed.
C10_Witness ==
    /\ spos = "returned"
    /\ \E u \in DNodes : \E v \in DNodes \ {u} :
          /\ v \in DOMAIN graph[u] /\ graph[u][v] = 0
          /\ u \in DOMAIN graph[v] /\ graph[v][u] = 0
          /\ relaxed[u] = 1 /\ relaxed[v] = 1

=============================================================================
